---- MODULE Spec2Model ----
(***************************************************************************)
(* Model of the face-generator Telegram bot (src/main.py).                 *)
(*                                                                         *)
(* One chat is modelled.  A message arrives when no handler is running;    *)
(* the library hands it to the registered next-step handler if there is    *)
(* one, else to handle_start or handle_text.  The two batch functions      *)
(* (send_multiple_images, generate_custom_images) run step by step, one    *)
(* step per blocking call, so that every point at which a call can raise   *)
(* is a state of the model.                                                *)
(*                                                                         *)
(* Message texts are sequences of one-character strings.  Cyrillic texts   *)
(* are written in Latin transliteration ("Nazad" for the back word).       *)
(* Message ids are relative to the id of the message being handled         *)
(* (message.id is 0, the message before it -1, the bot's own messages      *)
(* 1, 2, ...).  The i-th file a handler creates is named i (uuid4 names    *)
(* are fresh).  The history variables (log, disk, removed) describe the    *)
(* handler invocation in progress or last finished and start empty when    *)
(* the next message is handled.                                            *)
(*                                                                         *)
(* Transport calls: send_message returns a message handle; edit, delete,   *)
(* send_photo and send_media_group either succeed or raise; the upstream   *)
(* GET either returns a payload or raises.  Among the exceptions of        *)
(* requests.get some are ValueErrors (InvalidSchema and InvalidURL on a    *)
(* redirect, InvalidProxyURL), the others are not.                         *)
(*                                                                         *)
(* Three specifications.  Spec: one handler at a time, every payload an    *)
(* image, the typed numbers 0..MaxTyped.  SpecPayload: the same with        *)
(* payloads that are empty or no image, and small typed numbers.            *)
(* SpecThreaded: the two worker threads of the library's default           *)
(* configuration, each running a handler, and small typed numbers.         *)
(***************************************************************************)
EXTENDS Integers, Sequences, FiniteSets, TLC

MAX_IMAGES == 100
GROUP_SIZE == 9

\* Largest number a user types in the model (numbers 0..MaxTyped are typed).
MaxTyped == 150

\* Under SpecPayload: the largest number typed, and how many payloads of a
\* handler invocation may be something else than an image.
MaxPayloadTyped == 3
MaxBadPayloads == 1

\* Under SpecThreaded: the largest number typed.
MaxThreadedTyped == 2

VARIABLES
    pc,            \* position of the handler: "idle", "returned", "raised" or a step
    handler,       \* the handler invoked for the current message
    fn,            \* the image function the handler called, "none" if none
    text,          \* message.text
    count,         \* count / total_count
    i,             \* loop variable i
    sent,          \* generate_custom_images: sent
    images,        \* images: the pending batch (files whose content it holds)
    filenames,     \* filenames
    progress_msg,  \* progress_msg.message_id
    next_id,       \* id the transport gives to the bot's next message
    disk,          \* files created by this handler invocation that exist
    removed,       \* files passed to os.remove, in order
    handlers,      \* number of next-step handlers registered for the chat
    log,           \* calls made by this handler invocation, in order
    who,           \* the worker thread the variables above belong to: 1 or 2
    other,         \* the same variables (handlers aside) of the other worker
    trace          \* workers that made the fetches, edits and grouped sends
                   \* of the invocations in progress or last finished, in order

vars == <<pc, handler, fn, text, count, i, sent, images, filenames,
          progress_msg, next_id, disk, removed, handlers, log, who, other,
          trace>>

-----------------------------------------------------------------------------
(* Texts *)

BTN_SINGLE == <<"P","o","l","u","c","h","i","t"," ","i","z","o","b","r","a","z","h","e","n","i","e">>
BTN_NINE == <<"P","o","l","u","c","h","i","t"," ","9"," ","i","z","o","b","r","a","z","h","e","n","i","j">>
BTN_CUSTOM == <<"S","v","o","e"," ","k","o","l","i","c","h","e","s","t","v","o">>
BTN_BACK == <<"N","a","z","a","d">>
CMD_START == <<"/","s","t","a","r","t">>

TXT_SINGLE == <<"p","o","l","u","c","h","i","t"," ","i","z","o","b","r","a","z","h","e","n","i","e">>
TXT_NINE == <<"p","o","l","u","c","h","i","t"," ","9"," ","i","z","o","b","r","a","z","h","e","n","i","j">>
TXT_CUSTOM == <<"s","v","o","e"," ","k","o","l","i","c","h","e","s","t","v","o">>
TXT_BACK == <<"n","a","z","a","d">>

UpperLetters == <<"A","B","C","D","E","F","G","H","I","J","K","L","M",
                  "N","O","P","Q","R","S","T","U","V","W","X","Y","Z">>
LowerLetters == <<"a","b","c","d","e","f","g","h","i","j","k","l","m",
                  "n","o","p","q","r","s","t","u","v","w","x","y","z">>
Digits == <<"0","1","2","3","4","5","6","7","8","9">>

\* The lower-case letter of each upper-case letter.
LowerMap ==
    [c \in {UpperLetters[k] : k \in 1..Len(UpperLetters)} |->
        LowerLetters[CHOOSE k \in 1..Len(UpperLetters) : UpperLetters[k] = c]]

\* str.lower()
LowerChar(c) == IF c \in DOMAIN LowerMap THEN LowerMap[c] ELSE c

Lower(s) == [k \in 1..Len(s) |-> LowerChar(s[k])]

\* str.strip()
RECURSIVE LStrip(_)
LStrip(s) == IF s # <<>> /\ Head(s) = " " THEN LStrip(Tail(s)) ELSE s

RECURSIVE RStrip(_)
RStrip(s) ==
    IF s # <<>> /\ s[Len(s)] = " " THEN RStrip(SubSeq(s, 1, Len(s) - 1)) ELSE s

Strip(s) == RStrip(LStrip(s))

IsDigit(c) == \E k \in 1..Len(Digits) : Digits[k] = c

DigitVal(c) == (CHOOSE k \in 1..Len(Digits) : Digits[k] = c) - 1

RECURSIVE DigitsValue(_, _)
DigitsValue(s, acc) ==
    IF s = <<>> THEN acc ELSE DigitsValue(Tail(s), 10 * acc + DigitVal(Head(s)))

\* int(message.text): surrounding blanks and one sign are accepted, then one
\* or more decimal digits; anything else raises ValueError (ok = FALSE).
PyInt(s) ==
    LET t == Strip(s)
        signed == t # <<>> /\ Head(t) \in {"+", "-"}
        body == IF signed THEN Tail(t) ELSE t
        good == body # <<>> /\ \A k \in 1..Len(body) : IsDigit(body[k])
    IN  IF good
        THEN [ok |-> TRUE,
              val |-> IF signed /\ Head(t) = "-"
                      THEN 0 - DigitsValue(body, 0) ELSE DigitsValue(body, 0)]
        ELSE [ok |-> FALSE, val |-> 0]

\* str(n) for n >= 0: what the user types for the number n.
RECURSIVE Format(_)
Format(n) ==
    IF n < 10 THEN <<Digits[n + 1]>> ELSE Append(Format(n \div 10), Digits[(n % 10) + 1])

\* The messages a user sends in the model.
Texts ==
    {CMD_START, BTN_SINGLE, BTN_NINE, BTN_CUSTOM, BTN_BACK, TXT_BACK,
     <<"N","A","Z","A","D">>, <<" ">> \o BTN_BACK,
     <<"a","b","c">>, <<"1",".","5">>, <<"1","2","a">>, <<"-","5">>,
     <<"+","2","0">>, <<" ","7"," ">>, <<"0","0","7">>}
    \cup {Format(n) : n \in 0..MaxTyped}

\* message.text of a message that carries no text (a photo, a sticker, a
\* location): None, which is no string.
None == <<"None">>

-----------------------------------------------------------------------------
(* Calls recorded in the log *)

\* A message text: its template, the two numbers it shows, its reply markup.
Msg(template, a, b, markup) == <<template, a, b, markup>>

NoText == <<"", 0, 0, "">>

Ev(op, id, txt, media, ok) ==
    [op |-> op, id |-> id, text |-> txt, media |-> media, ok |-> ok]

\* bot.send_message(chat, text, reply_markup): the new message gets id `id`.
SendMessage(id, txt) == Ev("send_message", id, txt, <<>>, TRUE)

EditMessageText(id, txt, ok) == Ev("edit_message_text", id, txt, <<>>, ok)

DeleteMessage(id, ok) == Ev("delete_message", id, NoText, <<>>, ok)

SendMediaGroup(media, ok) == Ev("send_media_group", 0, NoText, media, ok)

SendPhoto(file, ok) == Ev("send_photo", 0, NoText, <<file>>, ok)

\* What response.content can be: an image, nothing, or something else.
Payloads == {"image", "empty", "not_image"}

\* How requests.get can end: with a response, with an exception that is a
\* ValueError, with any other exception.
DownloadOutcomes == {"ok", "value_error", "error"}

\* requests.get inside download_image: the file written and the payload put
\* in it; file is 0 and payload "" when it raised.
RequestsGet(file, ok, payload) ==
    Ev("download_image", file, Msg(payload, 0, 0, ""), <<>>, ok)

-----------------------------------------------------------------------------

\* The locals and the history of a worker that has handled no message yet.
IdleContext ==
    [pc |-> "idle", handler |-> "none", fn |-> "none", text |-> <<>>,
     count |-> 0, i |-> 0, sent |-> 0, images |-> <<>>, filenames |-> <<>>,
     progress_msg |-> 0, next_id |-> 1, disk |-> {}, removed |-> <<>>,
     log |-> <<>>]

Init ==
    /\ pc = "idle"
    /\ handler = "none"
    /\ fn = "none"
    /\ text = <<>>
    /\ count = 0
    /\ i = 0
    /\ sent = 0
    /\ images = <<>>
    /\ filenames = <<>>
    /\ progress_msg = 0
    /\ next_id = 1
    /\ disk = {}
    /\ removed = <<>>
    /\ handlers = 0
    /\ log = <<>>
    /\ who = 1
    /\ other = IdleContext
    /\ trace = <<>>

\* No handler is running: the next message can be handled.
Quiescent == pc \in {"idle", "returned", "raised"}

\* @bot.message_handler(commands=['start'])
IsStartCommand(t) ==
    /\ Len(t) >= Len(CMD_START)
    /\ SubSeq(t, 1, Len(CMD_START)) = CMD_START
    /\ IF Len(t) = Len(CMD_START) THEN TRUE ELSE t[Len(CMD_START) + 1] = " "

\* The locals and the history of a handler invocation that has just begun.
Fresh(name, t) ==
    /\ handler' = name
    /\ text' = t
    /\ i' = 0
    /\ sent' = 0
    /\ images' = <<>>
    /\ filenames' = <<>>
    /\ progress_msg' = 0
    /\ disk' = {}
    /\ removed' = <<>>
    /\ trace' = SelectSeq(trace, LAMBDA w : w # who)
    /\ UNCHANGED <<who, other>>

\* A step of the running handler that is a fetch, a progress edit or a
\* grouped send,
RelayCall ==
    /\ trace' = Append(trace, who)
    /\ UNCHANGED <<who, other>>

\* and one that is none of them.
NoRelayCall == UNCHANGED <<who, other, trace>>

handle_start(t) ==
    /\ Quiescent
    /\ handlers = 0
    /\ IsStartCommand(t)
    /\ Fresh("handle_start", t)
    /\ log' = <<SendMessage(1, Msg("greeting", 0, 0, "main"))>>
    /\ next_id' = 2
    /\ pc' = "returned"
    /\ fn' = "none"
    /\ count' = 0
    /\ UNCHANGED handlers

\* What handle_text and handle_custom_quantity leave as they were when they
\* return without calling an image function.
NoRun ==
    /\ fn' = "none"
    /\ count' = 0
    /\ pc' = "returned"

\* handle_text: the previous message is deleted (a failure is printed and
\* ignored), then the stripped, lower-cased text selects the action.
handle_text(t, delOk) ==
    /\ Quiescent
    /\ handlers = 0
    /\ ~IsStartCommand(t)
    /\ Fresh("handle_text", t)
    /\ LET cmd == Lower(Strip(t))
           del == DeleteMessage(0 - 1, delOk)
       IN  CASE cmd = TXT_SINGLE ->
                  /\ fn' = "send_single_image"
                  /\ count' = 0
                  /\ pc' = "single_download"
                  /\ next_id' = 1
                  /\ log' = <<del>>
                  /\ UNCHANGED handlers
             [] cmd = TXT_NINE ->
                  /\ fn' = "send_multiple_images"
                  /\ count' = 9
                  /\ pc' = "send_progress"
                  /\ next_id' = 1
                  /\ log' = <<del>>
                  /\ UNCHANGED handlers
             [] cmd = TXT_CUSTOM ->
                  \* ask_for_custom_quantity
                  /\ NoRun
                  /\ log' = <<del, SendMessage(1, Msg("ask_quantity", 0, MAX_IMAGES, "quantity"))>>
                  /\ next_id' = 2
                  /\ handlers' = handlers + 1
             [] OTHER ->
                  /\ NoRun
                  /\ log' = <<del, SendMessage(1, Msg("main_page", 0, 0, "main"))>>
                  /\ next_id' = 2
                  /\ UNCHANGED handlers

\* Variant of QuantityInRange: the lower bound is not tested.
QuantityInRange_no_lower(q) == q <= MAX_IMAGES

\* 1 <= quantity <= MAX_IMAGES
QuantityInRange(q) == 1 <= q /\ q <= MAX_IMAGES

\* handle_custom_quantity, the registered next-step handler: the library
\* removes the chat's next-step handlers when it calls them, and calls them
\* with the chat's next message whatever its content type. On a message
\* without text, message.text.lower() raises AttributeError.
handle_custom_quantity(t) ==
    /\ Quiescent
    /\ handlers > 0
    /\ Fresh("handle_custom_quantity", t)
    /\ IF t = None
       THEN /\ fn' = "none"
            /\ count' = 0
            /\ pc' = "raised"
            /\ log' = <<>>
            /\ next_id' = 1
            /\ handlers' = 0
       ELSE IF Lower(t) = TXT_BACK
       THEN /\ NoRun
            /\ log' = <<SendMessage(1, Msg("returned_main", 0, 0, "main"))>>
            /\ next_id' = 2
            /\ handlers' = 0
       ELSE LET q == PyInt(t)
            IN  IF q.ok /\ QuantityInRange(q.val)
                THEN /\ fn' = "generate_custom_images"
                     /\ count' = q.val
                     /\ pc' = "send_progress"
                     /\ log' = <<>>
                     /\ next_id' = 1
                     /\ handlers' = 0
                ELSE /\ NoRun
                     /\ log' = <<SendMessage(1, Msg("enter_number", 1, MAX_IMAGES, "quantity"))>>
                     /\ next_id' = 2
                     /\ handlers' = 1

-----------------------------------------------------------------------------
(* send_multiple_images and generate_custom_images *)

Relay == {"send_multiple_images", "generate_custom_images"}

\* Variants of the operators below, each with one plausible slip:
\* range(1, count) instead of range(1, count + 1);
LoopNext_short(k, n) == IF k + 1 < n THEN "download" ELSE "delete_progress"

\* insert(0, ...) instead of append;
AppendImage_front(imgs, file) == <<file>> \o imgs

\* the test `or i == count` left out;
ShouldFlush_no_last(imgs, k, n) == Len(imgs) = GROUP_SIZE

\* images.clear() left out;
ClearImages_keep(imgs) == imgs

\* the download wrapped in try/except: continue;
AfterDownloadError_continue(k, n) == IF k < n THEN "download" ELSE "delete_progress"

\* the progress text built before the counter is advanced;
ProgressText_lag(done, total) == Msg("generation", done - 1, total, "none")

\* the grouped send wrapped in try/except: pass, so the loop goes on;
AfterSendGroupError_continue(k, n) == IF k < n THEN "download" ELSE "delete_progress"

\* the delete of the progress message called outside its try block.
AfterDeleteProgress_raise(ok) == IF ok THEN "remove_files" ELSE "raised"

\* for i in range(1, count + 1): the step after iteration k has ended.
LoopNext(k, n) == IF k < n THEN "download" ELSE "delete_progress"

\* images.append(types.InputMediaPhoto(img_file.read()))
AppendImage(imgs, file) == Append(imgs, file)

\* if len(images) == GROUP_SIZE or i == count
ShouldFlush(imgs, k, n) == Len(imgs) = GROUP_SIZE \/ k = n

\* images.clear()
ClearImages(imgs) == <<>>

\* An exception of download_image is caught nowhere in the image functions:
\* the function is left.
AfterDownloadError(k, n) == "raised"

\* try: ... generate_custom_images(message, quantity) ... except ValueError:
\* the call is inside the try block of handle_custom_quantity, so a
\* ValueError raised during the run reaches its except clause.
ExceptValueError(h) == h = "handle_custom_quantity"

\* An exception of bot.edit_message_text is caught nowhere either.
AfterEditError(imgs, k, n) == "raised"

\* Nor is an exception of bot.send_media_group.
AfterSendGroupError(k, n) == "raised"

\* try: bot.delete_message(...) except: pass -- the files are removed next,
\* whether the delete succeeded or not.
AfterDeleteProgress(ok) == "remove_files"

\* The text of the in-place edit: "Generation {done}/{total}. ..."
ProgressText(done, total) == Msg("generation", done, total, "none")

\* The message the edit is applied to: progress_msg.message_id
EditTarget(progress, next) == progress

\* progress_msg = bot.send_message(chat, "Generation 0/{count}. ...")
SendProgress ==
    /\ pc = "send_progress"
    /\ log' = Append(log, SendMessage(next_id,
                 Msg(IF fn = "send_multiple_images" THEN "generation_wait" ELSE "generation",
                     0, count, "none")))
    /\ progress_msg' = next_id
    /\ next_id' = next_id + 1
    /\ pc' = LoopNext(0, count)
    /\ UNCHANGED <<handler, fn, text, count, i, sent, images, filenames, disk,
                   removed, handlers>>
    /\ NoRelayCall

\* filename = download_image(); filenames.append(filename); images.append(...)
\* download_image opens the file only after requests.get has returned.
Download(outcome, payload) ==
    /\ pc = "download"
    /\ i' = i + 1
    /\ CASE outcome = "ok" ->
             LET file == Len(filenames) + 1
             IN  /\ disk' = disk \cup {file}
                 /\ filenames' = Append(filenames, file)
                 /\ images' = AppendImage(images, file)
                 /\ log' = Append(log, RequestsGet(file, TRUE, payload))
                 /\ pc' = "edit"
                 /\ UNCHANGED <<next_id, handlers>>
         [] outcome = "value_error" /\ ExceptValueError(handler) ->
             \* except ValueError of handle_custom_quantity
             /\ log' = log \o <<RequestsGet(0, FALSE, ""),
                                SendMessage(next_id, Msg("enter_number", 1, MAX_IMAGES, "quantity"))>>
             /\ next_id' = next_id + 1
             /\ handlers' = handlers + 1
             /\ pc' = "returned"
             /\ UNCHANGED <<disk, filenames, images>>
         [] OTHER ->
             /\ log' = Append(log, RequestsGet(0, FALSE, ""))
             /\ pc' = AfterDownloadError(i + 1, count)
             /\ UNCHANGED <<disk, filenames, images, next_id, handlers>>
    /\ UNCHANGED <<handler, fn, text, count, sent, progress_msg, removed>>
    /\ RelayCall

\* sent += 1 (generate_custom_images); bot.edit_message_text(...); then the
\* test that decides whether the batch is sent.
Edit(ok) ==
    /\ pc = "edit"
    /\ sent' = IF fn = "generate_custom_images" THEN sent + 1 ELSE sent
    /\ log' = Append(log, EditMessageText(EditTarget(progress_msg, next_id),
                 ProgressText(IF fn = "generate_custom_images" THEN sent + 1 ELSE i, count),
                 ok))
    /\ pc' = IF ~ok THEN AfterEditError(images, i, count)
             ELSE IF ShouldFlush(images, i, count) THEN "send_group"
             ELSE LoopNext(i, count)
    /\ UNCHANGED <<handler, fn, text, count, i, images, filenames, progress_msg,
                   next_id, disk, removed, handlers>>
    /\ RelayCall

\* bot.send_media_group(chat, images); images.clear()
SendGroup(ok) ==
    /\ pc = "send_group"
    /\ log' = Append(log, SendMediaGroup(images, ok))
    /\ IF ok
       THEN /\ images' = ClearImages(images)
            /\ pc' = LoopNext(i, count)
       ELSE /\ pc' = AfterSendGroupError(i, count)
            /\ UNCHANGED images
    /\ UNCHANGED <<handler, fn, text, count, i, sent, filenames, progress_msg,
                   next_id, disk, removed, handlers>>
    /\ RelayCall

\* try: bot.delete_message(chat, progress_msg.message_id) except: pass
DeleteProgress(ok) ==
    /\ pc = "delete_progress"
    /\ log' = Append(log, DeleteMessage(progress_msg, ok))
    /\ pc' = AfterDeleteProgress(ok)
    /\ UNCHANGED <<handler, fn, text, count, i, sent, images, filenames,
                   progress_msg, next_id, disk, removed, handlers>>
    /\ NoRelayCall

\* for file in filenames: os.remove(file).  os.remove of a file that does
\* not exist raises, which ends the loop.
RECURSIVE RemoveLoop(_, _, _)
RemoveLoop(files, d, done) ==
    IF files = <<>> THEN [disk |-> d, removed |-> done, ok |-> TRUE]
    ELSE IF Head(files) \notin d
         THEN [disk |-> d, removed |-> Append(done, Head(files)), ok |-> FALSE]
         ELSE RemoveLoop(Tail(files), d \ {Head(files)}, Append(done, Head(files)))

RemoveFiles ==
    /\ pc = "remove_files"
    /\ LET r == RemoveLoop(filenames, disk, <<>>)
       IN  /\ disk' = r.disk
           /\ removed' = r.removed
           /\ pc' = IF r.ok THEN "send_done" ELSE "raised"
    /\ UNCHANGED <<handler, fn, text, count, i, sent, images, filenames,
                   progress_msg, next_id, handlers, log>>
    /\ NoRelayCall

\* bot.send_message(chat, "Done! ...", reply_markup=create_main_markup())
SendDone ==
    /\ pc = "send_done"
    /\ log' = Append(log, SendMessage(next_id, Msg("done", 0, 0, "main")))
    /\ next_id' = next_id + 1
    /\ pc' = "returned"
    /\ UNCHANGED <<handler, fn, text, count, i, sent, images, filenames,
                   progress_msg, disk, removed, handlers>>
    /\ NoRelayCall

-----------------------------------------------------------------------------
(* send_single_image *)

\* filename = download_image()
SingleDownload(ok, payload) ==
    /\ pc = "single_download"
    /\ IF ok
       THEN /\ disk' = disk \cup {1}
            /\ filenames' = <<1>>
            /\ log' = Append(log, RequestsGet(1, TRUE, payload))
            /\ pc' = "single_send_photo"
       ELSE /\ log' = Append(log, RequestsGet(0, FALSE, ""))
            /\ pc' = "raised"
            /\ UNCHANGED <<disk, filenames>>
    /\ UNCHANGED <<handler, fn, text, count, i, sent, images, progress_msg,
                   next_id, removed, handlers>>
    /\ NoRelayCall

\* with open(filename, 'rb') as img: bot.send_photo(chat, img)
SingleSendPhoto(ok) ==
    /\ pc = "single_send_photo"
    /\ log' = Append(log, SendPhoto(filenames[1], ok))
    /\ pc' = IF ok THEN "single_finish" ELSE "raised"
    /\ UNCHANGED <<handler, fn, text, count, i, sent, images, filenames,
                   progress_msg, next_id, disk, removed, handlers>>
    /\ NoRelayCall

\* os.remove(filename); the user's message is deleted (failure ignored);
\* the completion message is sent.
SingleFinish(delOk) ==
    /\ pc = "single_finish"
    /\ disk' = disk \ {filenames[1]}
    /\ removed' = <<filenames[1]>>
    /\ log' = log \o <<DeleteMessage(0, delOk),
                       SendMessage(next_id, Msg("done", 0, 0, "main"))>>
    /\ next_id' = next_id + 1
    /\ pc' = "returned"
    /\ UNCHANGED <<handler, fn, text, count, i, sent, images, filenames,
                   progress_msg, handlers>>
    /\ NoRelayCall

-----------------------------------------------------------------------------

Next ==
    \/ \E t \in Texts : handle_start(t)
    \/ \E t \in Texts, delOk \in BOOLEAN : handle_text(t, delOk)
    \/ \E t \in Texts \cup {None} : handle_custom_quantity(t)
    \/ SendProgress
    \/ \E o \in DownloadOutcomes : Download(o, "image")
    \/ \E ok \in BOOLEAN : Edit(ok)
    \/ \E ok \in BOOLEAN : SendGroup(ok)
    \/ \E ok \in BOOLEAN : DeleteProgress(ok)
    \/ RemoveFiles
    \/ SendDone
    \/ \E ok \in BOOLEAN : SingleDownload(ok, "image")
    \/ \E ok \in BOOLEAN : SingleSendPhoto(ok)
    \/ \E delOk \in BOOLEAN : SingleFinish(delOk)

Spec == Init /\ [][Next]_vars

-----------------------------------------------------------------------------
(* The same bot with the payloads of the upstream told apart.  The quantities
   typed are small and few payloads are bad, to keep the runs few. *)

PayloadTexts ==
    {CMD_START, BTN_SINGLE, BTN_NINE, BTN_CUSTOM, BTN_BACK, <<"a","b","c">>}
    \cup {Format(n) : n \in 0..MaxPayloadTyped}

IsBadPayload(e) ==
    e.op = "download_image" /\ e.ok /\ e.text[1] \in {"empty", "not_image"}

\* The upstream may still return a payload that is not an image.
MayBeBad(payload) ==
    payload = "image" \/ Len(SelectSeq(log, IsBadPayload)) < MaxBadPayloads

NextPayload ==
    \/ \E t \in PayloadTexts : handle_start(t)
    \/ \E t \in PayloadTexts, delOk \in BOOLEAN : handle_text(t, delOk)
    \/ \E t \in PayloadTexts \cup {None} : handle_custom_quantity(t)
    \/ SendProgress
    \/ \E o \in DownloadOutcomes, p \in Payloads : MayBeBad(p) /\ Download(o, p)
    \/ \E ok \in BOOLEAN : Edit(ok)
    \/ \E ok \in BOOLEAN : SendGroup(ok)
    \/ \E ok \in BOOLEAN : DeleteProgress(ok)
    \/ RemoveFiles
    \/ SendDone
    \/ \E ok \in BOOLEAN, p \in Payloads : MayBeBad(p) /\ SingleDownload(ok, p)
    \/ \E ok \in BOOLEAN : SingleSendPhoto(ok)
    \/ \E delOk \in BOOLEAN : SingleFinish(delOk)

SpecPayload == Init /\ [][NextPayload]_vars

-----------------------------------------------------------------------------
(* Two worker threads *)

\* The messages of the chat under SpecThreaded: the buttons but the
\* nine-images one, a text that is no number, the numbers 0..MaxThreadedTyped.
ThreadedTexts ==
    {CMD_START, BTN_SINGLE, BTN_CUSTOM, BTN_BACK, <<"a","b","c">>}
    \cup {Format(n) : n \in 0..MaxThreadedTyped}

\* The locals and the history of the worker whose handler the actions move.
Context ==
    [pc |-> pc, handler |-> handler, fn |-> fn, text |-> text, count |-> count,
     i |-> i, sent |-> sent, images |-> images, filenames |-> filenames,
     progress_msg |-> progress_msg, next_id |-> next_id, disk |-> disk,
     removed |-> removed, log |-> log]

\* telebot.TeleBot(token) is threaded and has two worker threads: the polling
\* thread gives each handler call to a free worker and goes on to the next
\* message.  The scheduler passes from one worker to the other; which of two
\* workers that run no handler gets the next message makes no difference.
Switch ==
    /\ ~Quiescent \/ other.pc \notin {"idle", "returned", "raised"}
    /\ who' = 3 - who
    /\ other' = Context
    /\ pc' = other.pc
    /\ handler' = other.handler
    /\ fn' = other.fn
    /\ text' = other.text
    /\ count' = other.count
    /\ i' = other.i
    /\ sent' = other.sent
    /\ images' = other.images
    /\ filenames' = other.filenames
    /\ progress_msg' = other.progress_msg
    /\ next_id' = other.next_id
    /\ disk' = other.disk
    /\ removed' = other.removed
    /\ log' = other.log
    /\ UNCHANGED <<handlers, trace>>

NextThreaded ==
    \/ \E t \in ThreadedTexts : handle_start(t)
    \/ \E t \in ThreadedTexts, delOk \in BOOLEAN : handle_text(t, delOk)
    \/ \E t \in ThreadedTexts \cup {None} : handle_custom_quantity(t)
    \/ SendProgress
    \/ \E o \in DownloadOutcomes : Download(o, "image")
    \/ \E ok \in BOOLEAN : Edit(ok)
    \/ \E ok \in BOOLEAN : SendGroup(ok)
    \/ \E ok \in BOOLEAN : DeleteProgress(ok)
    \/ RemoveFiles
    \/ SendDone
    \/ \E ok \in BOOLEAN : SingleDownload(ok, "image")
    \/ \E ok \in BOOLEAN : SingleSendPhoto(ok)
    \/ \E delOk \in BOOLEAN : SingleFinish(delOk)
    \/ Switch

SpecThreaded == Init /\ [][NextThreaded]_vars

-----------------------------------------------------------------------------
(* What a handler invocation did, read off its log *)

Ceil(n, g) == (n + g - 1) \div g

\* The calls of kind op, in order.
Calls(op) == SelectSeq(log, LAMBDA e : e.op = op)

\* Number of fetch calls issued (requests.get, successful or not).
Fetches == Len(Calls("download_image"))

\* The batches the transport accepted, in order of delivery.
Delivered ==
    LET ok == SelectSeq(log, LAMBDA e : e.op = "send_media_group" /\ e.ok)
    IN  [k \in 1..Len(ok) |-> ok[k].media]

RECURSIVE Flatten(_)
Flatten(batches) ==
    IF batches = <<>> THEN <<>> ELSE Head(batches) \o Flatten(Tail(batches))

\* The files 1..n in the order they were fetched.
Upto(n) == [k \in 1..n |-> k]

\* A fetch, an edit or a grouped send has raised.
Failed(e) ==
    e.op \in {"download_image", "edit_message_text", "send_media_group"} /\ ~e.ok

NoFailure == \A k \in 1..Len(log) : ~Failed(log[k])

\* A batch function was called and the handler is no longer running.
RunEnded == fn \in Relay /\ Quiescent

\* Position of the first call in the log that satisfies P (0 if none).
First(P(_)) ==
    IF \E j \in 1..Len(log) : P(log[j])
    THEN CHOOSE j \in 1..Len(log) : P(log[j]) /\ \A m \in 1..(j - 1) : ~P(log[m])
    ELSE 0

IsCompletion(e) == e.op = "send_message" /\ e.text[1] = "done"

IsProgressSend(e) ==
    e.op = "send_message" /\ e.text[1] \in {"generation", "generation_wait"}

-----------------------------------------------------------------------------
(* C1 *)

\* C1: when a run of send_multiple_images or generate_custom_images has
\* ended, on whatever path, every temporary file it created has been removed
\* exactly once and none is left on disk.
C1_AllFilesReleased ==
    RunEnded =>
        /\ disk = {}
        /\ removed = filenames

-----------------------------------------------------------------------------
(* C2 *)

\* C2: a run that ended with no fetch, edit or grouped send failing issued
\* exactly count fetch calls, and the delivered batches together hold exactly
\* count images: every fetched file once, none twice.
C2_FetchedAndDeliveredEqualCount ==
    (RunEnded /\ NoFailure) =>
        LET flat == Flatten(Delivered)
        IN  /\ Fetches = count
            /\ Len(flat) = count
            /\ {flat[k] : k \in 1..Len(flat)} = 1..count

C2_Witness ==
    /\ fn = "generate_custom_images"
    /\ pc = "returned"
    /\ count = 20
    /\ Fetches = 20
    /\ Len(Flatten(Delivered)) = 20

-----------------------------------------------------------------------------
(* C3 *)

\* C3: while nothing has failed, every batch handed to send_media_group has
\* between 1 and GROUP_SIZE elements, and a run that ended without a failure
\* made exactly ceil(count / GROUP_SIZE) grouped sends.
C3_BatchSizeAndNumber ==
    (fn \in Relay /\ NoFailure) =>
        LET sends == Calls("send_media_group")
        IN  /\ \A k \in 1..Len(sends) :
                   1 <= Len(sends[k].media) /\ Len(sends[k].media) <= GROUP_SIZE
            /\ Quiescent => Len(sends) = Ceil(count, GROUP_SIZE)

C3_Witness ==
    /\ fn = "generate_custom_images"
    /\ pc = "returned"
    /\ count = 28
    /\ Len(Calls("send_media_group")) = 4
    /\ Len(Delivered[4]) = 1

-----------------------------------------------------------------------------
(* C4 *)

\* C4: the delivered batches followed by the pending batch are the fetched
\* files in fetch order; the pending batch is empty right after a grouped
\* send; and in a run that ended without a failure every batch but the last
\* has GROUP_SIZE elements and the last has
\* count - GROUP_SIZE * (ceil(count / GROUP_SIZE) - 1).
C4_ContiguousBatchesInOrder ==
    fn \in Relay =>
        /\ Flatten(Delivered) \o images = filenames
        /\ filenames = Upto(Len(filenames))
        /\ (log # <<>> /\ log[Len(log)].op = "send_media_group" /\ log[Len(log)].ok)
              => images = <<>>
        /\ (Quiescent /\ NoFailure) =>
              LET b == Delivered
                  last == Ceil(count, GROUP_SIZE)
              IN  /\ Len(b) = last
                  /\ \A k \in 1..(Len(b) - 1) : Len(b[k]) = GROUP_SIZE
                  /\ Len(b[last]) = count - GROUP_SIZE * (last - 1)
                  /\ Flatten(b) = Upto(count)

C4_Witness ==
    /\ fn = "generate_custom_images"
    /\ pc = "returned"
    /\ count = 20
    /\ [k \in 1..Len(Delivered) |-> Len(Delivered[k])] = <<9, 9, 2>>
    /\ Delivered[3] = <<19, 20>>

-----------------------------------------------------------------------------
(* C5 *)

IsFailedFetch(e) == e.op = "download_image" /\ ~e.ok

\* C5: when a fetch of a run has failed, a message is sent to the chat after
\* the failure and before the run ends.
C5_FetchFailureNotified ==
    (RunEnded /\ First(IsFailedFetch) > 0) =>
        \E j \in (First(IsFailedFetch) + 1)..Len(log) : log[j].op = "send_message"

-----------------------------------------------------------------------------
(* C6 *)

\* C6: once the fetch of image k of a run has failed, the log holds no later
\* fetch and no later grouped send; exactly k fetches were issued; the
\* pending images are in no delivered batch; and the batches delivered are
\* the (k - 1) \div GROUP_SIZE full batches sent before the failure.
C6_FetchFailureStopsRun ==
    (fn \in Relay /\ First(IsFailedFetch) > 0) =>
        LET f == First(IsFailedFetch)
            k == Fetches
            b == Delivered
        IN  /\ \A j \in (f + 1)..Len(log) :
                   log[j].op \notin {"download_image", "send_media_group"}
            /\ k = i /\ k <= count
            /\ Len(Calls("send_media_group")) = (k - 1) \div GROUP_SIZE
            /\ Len(b) = (k - 1) \div GROUP_SIZE
            /\ \A m \in 1..Len(b) : Len(b[m]) = GROUP_SIZE
            /\ \A m \in 1..Len(images) :
                   \A x \in 1..Len(b) : \A y \in 1..Len(b[x]) : b[x][y] # images[m]

C6_Witness ==
    /\ fn = "generate_custom_images"
    /\ pc = "raised"
    /\ count = 20
    /\ First(IsFailedFetch) > 0
    /\ Fetches = 12
    /\ Len(Delivered) = 1
    /\ images = <<10, 11>>

-----------------------------------------------------------------------------
(* C7 *)

IsFetchOrEdit(e) == e.op \in {"download_image", "edit_message_text"}

\* C7: while nothing has failed, the progress message is sent once, before
\* the first fetch, showing 0/count; fetches and edits alternate, the k-th
\* edit following the k-th fetch, applied to the handle of the progress
\* message and showing k/count; a run that ended without a failure made
\* exactly count edits.
C7_ProgressEditedInPlace ==
    (fn \in Relay /\ pc # "send_progress" /\ NoFailure) =>
        LET created == SelectSeq(log, IsProgressSend)
            p == SelectSeq(log, IsFetchOrEdit)
        IN  /\ Len(created) = 1
            /\ created[1].text = Msg(created[1].text[1], 0, count, "none")
            /\ First(IsFetchOrEdit) > 0 => First(IsProgressSend) < First(IsFetchOrEdit)
            /\ \A k \in 1..Len(p) :
                   IF k % 2 = 1
                   THEN p[k].op = "download_image" /\ p[k].id = (k + 1) \div 2
                   ELSE /\ p[k].op = "edit_message_text"
                        /\ p[k].id = created[1].id
                        /\ p[k].text = Msg("generation", k \div 2, count, "none")
            /\ Quiescent => Len(p) = 2 * count

C7_Witness ==
    /\ fn = "send_multiple_images"
    /\ pc = "returned"
    /\ Len(Calls("edit_message_text")) = 9
    /\ Calls("edit_message_text")[9].text = Msg("generation", 9, 9, "none")

-----------------------------------------------------------------------------
(* C8 *)

IsFailedEdit(e) == e.op = "edit_message_text" /\ ~e.ok

\* C8: a run in which an edit of the progress message failed, and no fetch
\* or grouped send did, ends as if the edit had succeeded: it returns, having
\* made all count fetches, delivered all count images, removed its files and
\* sent the completion message.
C8_EditFailureSwallowed ==
    (RunEnded /\ First(IsFailedEdit) > 0
       /\ \A k \in 1..Len(log) : Failed(log[k]) => IsFailedEdit(log[k])) =>
        /\ pc = "returned"
        /\ Fetches = count
        /\ Flatten(Delivered) = Upto(count)
        /\ disk = {}
        /\ First(IsCompletion) > 0

-----------------------------------------------------------------------------
(* C9 *)

RECURSIVE DropZeros(_)
DropZeros(s) == IF Len(s) > 1 /\ Head(s) = "0" THEN DropZeros(Tail(s)) ELSE s

\* The text t is a decimal numeral of n: blanks around it, a plus sign and
\* leading zeros aside, it is n written out.
Denotes(t, n) ==
    LET u == Strip(t)
        v == IF u # <<>> /\ Head(u) = "+" THEN Tail(u) ELSE u
    IN  v # <<>> /\ DropZeros(v) = Format(n)

\* The typed texts that are an integer in 1..MAX_IMAGES.
InRangeTexts == {t \in Texts : \E n \in 1..MAX_IMAGES : Denotes(t, n)}

-----------------------------------------------------------------------------
(* C10 *)

\* C10: a run sends the completion message at most once, as its last call,
\* with the main menu, only after all ceil(count / GROUP_SIZE) batches have
\* been delivered and right after the call that deletes the progress
\* message, which itself follows the last grouped send; a run that returned
\* without a failure has sent it.
C10_CompletionAfterAllBatches ==
    fn \in Relay =>
        LET c == First(IsCompletion)
        IN  /\ c > 0 =>
                /\ Len(SelectSeq(log, IsCompletion)) = 1
                /\ c = Len(log)
                /\ log[c].text = Msg("done", 0, 0, "main")
                /\ Len(Delivered) = Ceil(count, GROUP_SIZE)
                /\ c > 2
                /\ log[c - 1].op = "delete_message"
                /\ log[c - 1].id = log[First(IsProgressSend)].id
                /\ log[c - 2].op = "send_media_group" /\ log[c - 2].ok
            /\ (pc = "returned" /\ NoFailure) => c > 0

C10_Witness ==
    /\ fn = "generate_custom_images"
    /\ pc = "returned"
    /\ count = MAX_IMAGES
    /\ IsCompletion(log[Len(log)])
    /\ ~log[Len(log) - 1].ok
    /\ Len(Delivered) = 12

-----------------------------------------------------------------------------
(* C11 *)

IsFailedSend(e) == e.op = "send_media_group" /\ ~e.ok

\* C11: once a grouped send of a run has been rejected, the run is over: the
\* rejected send is the last call of the run (no second attempt, no later
\* fetch, grouped send or completion message), the function has been left by
\* the exception, and the rejected batch is in no delivered batch.
C11_RejectedSendAbortsRun ==
    (fn \in Relay /\ First(IsFailedSend) > 0) =>
        LET f == First(IsFailedSend)
        IN  /\ f = Len(log)
            /\ pc = "raised"
            /\ Len(SelectSeq(log, IsFailedSend)) = 1
            /\ First(IsCompletion) = 0
            /\ images = log[f].media
            /\ \A x \in 1..Len(Delivered) : Delivered[x] # log[f].media
            /\ Fetches = i

C11_Witness ==
    /\ fn = "generate_custom_images"
    /\ pc = "raised"
    /\ count = 20
    /\ First(IsFailedSend) = Len(log)
    /\ Len(Delivered) = 1
    /\ images = <<10, 11, 12, 13, 14, 15, 16, 17, 18>>

-----------------------------------------------------------------------------
(* C17 *)

IsReprompt(e) == e.op = "send_message" /\ e.text[1] = "enter_number"

\* C17: when the reply to the quantity prompt was an integer in
\* 1..MAX_IMAGES, so that a run was started, the "enter a number" prompt is
\* not sent and the quantity handler is not registered again, whatever
\* happens in the run.
C17_NoRepromptAfterValidQuantity ==
    (handler = "handle_custom_quantity" /\ text \in InRangeTexts) =>
        /\ First(IsReprompt) = 0
        /\ handlers = 0

-----------------------------------------------------------------------------
(* C12 *)

\* C12: a fetch of a run whose payload is empty or is not an image is a
\* failed fetch: the run is aborted by it (it is the last call and the
\* function has been left by an exception), and the file holding the payload
\* is neither in the pending batch nor in a delivered batch.
C12_BadPayloadIsFailedFetch ==
    fn \in Relay =>
        \A k \in 1..Len(log) :
            IsBadPayload(log[k]) =>
                /\ pc = "raised"
                /\ k = Len(log)
                /\ \A m \in 1..Len(images) : images[m] # log[k].id
                /\ \A x \in 1..Len(Delivered) :
                       \A y \in 1..Len(Delivered[x]) : Delivered[x][y] # log[k].id

-----------------------------------------------------------------------------
(* C13 *)

IsProgress(e) == IsProgressSend(e) \/ e.op = "edit_message_text"

\* The done/total pairs the progress message has shown, in order.
ProgressShown ==
    LET p == SelectSeq(log, IsProgress)
    IN  [k \in 1..Len(p) |-> <<p[k].text[2], p[k].text[3]>>]

\* The request was for one image: the "single image" button, or quantity 1.
OneImageRequest ==
    \/ fn = "send_single_image"
    \/ fn = "generate_custom_images" /\ count = 1

\* The handler has sent its completion message.
Completed == pc = "returned" /\ First(IsCompletion) > 0

-----------------------------------------------------------------------------
(* C15 *)

\* The delete of the progress message (a message of the bot) has failed.
IsFailedProgressDelete(e) == e.op = "delete_message" /\ ~e.ok /\ e.id > 0

\* C15: after a failed delete of the progress message the run goes on to
\* remove its files and to send the completion message: it is never left by
\* an exception, and once it has returned every file of the run has been
\* removed and the last call is the completion message with the main menu.
\* And handle_text, when the delete of the previous message has failed, has
\* still dispatched on the text: the image function of the button was called,
\* or the quantity prompt was sent and its handler registered, or the main
\* page was sent.
C15_DeleteFailuresSwallowed ==
    /\ (fn \in Relay /\ First(IsFailedProgressDelete) > 0) =>
          /\ pc \in {"remove_files", "send_done", "returned"}
          /\ pc = "returned" =>
                /\ disk = {}
                /\ removed = filenames
                /\ Len(filenames) = count
                /\ log[Len(log)] = SendMessage(next_id - 1, Msg("done", 0, 0, "main"))
    /\ (handler = "handle_text" /\ log[1] = DeleteMessage(0 - 1, FALSE)) =>
          LET cmd == Lower(Strip(text))
          IN  CASE cmd = TXT_SINGLE -> fn = "send_single_image"
                [] cmd = TXT_NINE -> fn = "send_multiple_images" /\ count = 9
                [] cmd = TXT_CUSTOM ->
                      /\ log[2] = SendMessage(1, Msg("ask_quantity", 0, MAX_IMAGES, "quantity"))
                      /\ handlers = 1
                      /\ fn = "none"
                [] OTHER ->
                      /\ log[2] = SendMessage(1, Msg("main_page", 0, 0, "main"))
                      /\ fn = "none"

C15_Witness ==
    /\ handler = "handle_text"
    /\ log[1] = DeleteMessage(0 - 1, FALSE)
    /\ fn = "send_multiple_images"
    /\ pc = "returned"
    /\ First(IsFailedProgressDelete) > 0
    /\ disk = {}
    /\ removed = <<1, 2, 3, 4, 5, 6, 7, 8, 9>>
    /\ IsCompletion(log[Len(log)])

-----------------------------------------------------------------------------
(* C16 *)

\* C16: at most one quantity handler is ever registered, and after a message
\* that came in while the quantity prompt was open: the back word, in any
\* case, has sent the main menu only, called no image function and left no
\* handler registered; an integer in 1..MAX_IMAGES has called the batch
\* function with that count; and any other message has left exactly one
\* quantity handler registered and called no image function.
C16_PromptLeftOnlyByQuantityOrBack ==
    /\ handlers \in {0, 1}
    /\ handler = "handle_custom_quantity" =>
          CASE Lower(text) = TXT_BACK ->
                  /\ log = <<SendMessage(1, Msg("returned_main", 0, 0, "main"))>>
                  /\ handlers = 0
                  /\ fn = "none"
                  /\ Fetches = 0
            [] text \in InRangeTexts ->
                  /\ fn = "generate_custom_images"
                  /\ Denotes(text, count)
            [] OTHER ->
                  /\ handlers = 1
                  /\ fn = "none"
                  /\ Fetches = 0

-----------------------------------------------------------------------------
(* C14 *)

\* The batch function is between its progress message and its cleanup.
Active(c) ==
    c.fn \in Relay /\ c.pc \in {"download", "edit", "send_group", "delete_progress"}

\* C14: at most one run of the chat is active at a time, and the fetches,
\* progress edits and grouped sends of two runs do not interleave: no call
\* of one worker's run lies between two calls of the other's.
C14_OneActiveRunPerChat ==
    /\ ~(Active(Context) /\ Active(other))
    /\ ~\E a, b, c \in 1..Len(trace) :
            /\ a < b /\ b < c
            /\ trace[a] = trace[c]
            /\ trace[b] # trace[a]

====
